---- MODULE Spec2Model ----
(***************************************************************************)
(* Model of app6.py: a Streamlit quiz.  One script run (a "render tick")   *)
(* reads st.session_state, possibly generates a question through the       *)
(* Gemini model, and reacts to the button that caused the run.             *)
(*                                                                         *)
(* Four specifications:                                                    *)
(*   SpecGen  the function generate_crypto_question_google() alone,        *)
(*            applied to every response of ModelResponses;                 *)
(*   SpecPrompt  the exclusion list that function puts in its prompt,      *)
(*            built from a history of asked texts of any size;             *)
(*   Spec     the session state machine, whose generation loop calls the   *)
(*            same function on the responses of SessionResponses;          *)
(*   SpecLive Spec with the fairness that the script's reruns, the user    *)
(*            who keeps pressing the enabled button, and a generator that  *)
(*            eventually returns a usable question give.                   *)
(***************************************************************************)
EXTENDS Integers, Sequences, FiniteSets, Bags, TLC

(***************************************************************************)
(* Bounds of the model.                                                    *)
(***************************************************************************)
\* Number of distinct question texts the model can produce.
NumTexts == 4
\* Largest history of asked texts the prompt is built from under SpecPrompt.
MaxHistory == 11
\* st.session_state.max_questions.  The program sets 10 (app6.py:142); the
\* model runs the same code with a shorter quiz.
MaxQuestions == 3

(***************************************************************************)
(* Program constants.                                                      *)
(***************************************************************************)
\* app6.py:168  max_attempts = 5
max_attempts == 5
\* app6.py:104  len(explanation) < 20
MinExplanationLen == 20
\* app6.py:71  [-10:]
ExclusionLimit == 10
\* the prompt's "con 5 opciones" (app6.py:55) and the five-element example
\* array of its format description (app6.py:62)
PromptOptionCount == 5

(***************************************************************************)
(* Values.                                                                 *)
(***************************************************************************)
\* Python's None where a dict is expected (current_question, new_question,
\* generated_data).
None == [none |-> TRUE]
\* Python's None where a string is expected (user_answer, feedback).
NoneStr == "None"

\* Question texts are abstracted to 1..NumTexts; "in" on the set of asked
\* texts compares them exactly, as Python compares the strings.
Texts == 1..NumTexts
\* A "question" value that is a JSON array or object: not hashable.
UnhashableText == 0

\* The feedback strings of app6.py:235 and app6.py:238.
FeedbackCorrect == "Correcto"
FeedbackIncorrect == "Incorrecto"

Range(s) == {s[i] : i \in 1..Len(s)}

(***************************************************************************)
(* The model's responses: what model.generate_content(prompt) can give.    *)
(* response_mime_type only asks for JSON, so any JSON value can come back, *)
(* and the call itself can raise.                                          *)
(***************************************************************************)
\* "explanation" values: is_str = isinstance(explanation, str); sized = len()
\* is defined on it (false for a number or null); len = len(explanation).
Explanations ==
    { [is_str |-> TRUE,  sized |-> TRUE,  len |-> MinExplanationLen],
      [is_str |-> TRUE,  sized |-> TRUE,  len |-> MinExplanationLen - 1],
      [is_str |-> FALSE, sized |-> TRUE,  len |-> 2],
      [is_str |-> FALSE, sized |-> FALSE, len |-> 0] }

OptionLists ==
    { <<>>,
      <<"A", "B", "C", "D", "E">>,
      <<"A", "B", "C">>,
      <<"A", "A", "B", "C", "D">>,
      <<"Verdadero", "Falso">>,
      <<"True", "False">> }

AnswerValues == {"A", "Z", "Verdadero", "Falso", "True"}

TypeValues == {"mc", "tf", "other"}

\* kind: "json" = response.text parses as JSON; "json_error" = json.loads
\* raises JSONDecodeError; "api_error" = generate_content or response.text
\* raises.  keys_ok = all six required keys are present.  options_is_list =
\* isinstance(question_data["options"], list).
ParsedResponses ==
    [kind : {"json"}, keys_ok : {TRUE}, options_is_list : {TRUE},
     question : Texts \cup {UnhashableText}, type : TypeValues,
     options : OptionLists, answer : AnswerValues, explanation : Explanations]

DefaultResponse ==
    [kind |-> "json", keys_ok |-> TRUE, options_is_list |-> TRUE,
     question |-> 1, type |-> "mc", options |-> <<"A", "B", "C">>,
     answer |-> "A",
     explanation |-> [is_str |-> TRUE, sized |-> TRUE, len |-> MinExplanationLen]]

FailedResponses ==
    { [DefaultResponse EXCEPT !.kind = "json_error"],
      [DefaultResponse EXCEPT !.kind = "api_error"],
      [DefaultResponse EXCEPT !.keys_ok = FALSE],
      [DefaultResponse EXCEPT !.options_is_list = FALSE] }

ModelResponses == ParsedResponses \cup FailedResponses

\* The responses the session specification feeds its generation loop.
SessionOptionLists == { <<>>, <<"A", "B", "C">>, <<"Verdadero", "Falso">> }

SessionResponses ==
    { r \in ModelResponses :
        /\ r.options \in SessionOptionLists
        /\ r.answer \in {"A", "Verdadero"}
        /\ r.explanation.is_str /\ r.explanation.len = MinExplanationLen }

(***************************************************************************)
(* generate_crypto_question_google()                                       *)
(***************************************************************************)
\* app6.py:87-101: the dict json.loads returned passes the checks.
RequiredKeysPresent(r) == r.keys_ok

OptionsIsList(r) == r.options_is_list

McAnswerInvalid(r) == r.type = "mc" /\ r.answer \notin Range(r.options)

TfAnswerInvalid_Skipped(r) == FALSE

TfAnswerInvalid(r) == r.type = "tf" /\ r.answer \notin {"Verdadero", "Falso"}

\* TRUE when one of the "raise ValueError" lines is reached.
RaisesValueError(r) ==
    \/ ~RequiredKeysPresent(r)
    \/ ~OptionsIsList(r)
    \/ McAnswerInvalid(r)
    \/ TfAnswerInvalid(r)

\* app6.py:104: the condition of the st.warning.
ExplanationWarns(e) == ~e.is_str \/ e.len < MinExplanationLen

\* app6.py:105: the warning's f-string evaluates len(explanation), which
\* raises TypeError on a value without len(); the generic except catches it.
WarningRaises(e) == ExplanationWarns(e) /\ ~e.sized

Swap(x, i, j) == [x EXCEPT ![i] = x[j], ![j] = x[i]]

\* random.shuffle(x): for i in reversed(range(1, len(x))): j = randbelow(i + 1);
\* x[i], x[j] = x[j], x[i].  ShuffleFrom(x, i) is the set of results of the
\* remaining iterations, i being the 1-based index of the next one.
RECURSIVE ShuffleFrom_NoSelfSwap(_, _)
ShuffleFrom_NoSelfSwap(x, i) ==
    IF i < 2 THEN {x}
    ELSE UNION { ShuffleFrom_NoSelfSwap(Swap(x, i, j), i - 1) : j \in 1..(i - 1) }

RECURSIVE ShuffleFrom(_, _)
ShuffleFrom(x, i) ==
    IF i < 2 THEN {x}
    ELSE UNION { ShuffleFrom(Swap(x, i, j), i - 1) : j \in 1..i }

Shuffles(x) == ShuffleFrom(x, Len(x))

\* The dict the function returns for a response that passed.
QuestionData(r, opts) ==
    [question |-> r.question, type |-> r.type, options |-> opts,
     answer |-> r.answer, explanation |-> r.explanation]

Failure(err) == [data |-> None, error |-> err, warning |-> FALSE]

\* The outcomes of one call on response r: data is the return value, error
\* names the except branch that ran, warning tells whether st.warning ran.
generate_crypto_question_google(r) ==
    IF r.kind = "api_error" THEN {Failure("general")}
    ELSE IF r.kind = "json_error" THEN {Failure("json")}
    ELSE IF RaisesValueError(r) THEN {Failure("validation")}
    ELSE IF WarningRaises(r.explanation) THEN {Failure("general")}
    ELSE { [data |-> QuestionData(r, opts), error |-> "none",
            warning |-> ExplanationWarns(r.explanation)] :
           opts \in IF r.type = "mc" THEN Shuffles(r.options) ELSE {r.options} }

(***************************************************************************)
(* State.                                                                  *)
(***************************************************************************)
VARIABLES
    \* st.session_state (app6.py:134-144)
    current_question, question_requested, user_answer, submitted, feedback,
    correct_count, total_questions, max_questions, quiz_finished,
    asked_questions_set,
    \* position of the script run: "idle" between runs, "loop" at the head of
    \* the while of app6.py:170, "after" at app6.py:188
    pc,
    \* locals of the generation block (app6.py:167-172)
    attempts, new_question, generated_data,
    \* the model response a generator call under SpecGen works on, the except
    \* branch the last call ended in, and whether it showed the warning
    response, gen_error, warning_shown,
    \* the exclusion list in the prompt of the last call (app6.py:71): <<>>
    \* before a call, <<T>> with T the set of the texts listed
    prompt_exclusions,
    \* the st.error of app6.py:196 is on the page
    exhausted_error,
    \* history: the texts stored as current_question since the last restart
    stored_texts

session_vars ==
    <<current_question, question_requested, user_answer, submitted, feedback,
      correct_count, total_questions, max_questions, quiz_finished,
      asked_questions_set>>

local_vars == <<attempts, new_question, generated_data>>

call_vars == <<response, gen_error, warning_shown, prompt_exclusions>>

vars == <<session_vars, pc, local_vars, call_vars, exhausted_error, stored_texts>>

\* No generator call has been made in this run.
NoResponse == [kind |-> "none"]

Init ==
    /\ current_question = None
    /\ question_requested = FALSE
    /\ user_answer = NoneStr
    /\ submitted = FALSE
    /\ feedback = NoneStr
    /\ correct_count = 0
    /\ total_questions = 0
    /\ max_questions = MaxQuestions
    /\ quiz_finished = FALSE
    /\ asked_questions_set = {}
    /\ pc = "idle"
    /\ attempts = 0
    /\ new_question = None
    /\ generated_data = None
    /\ response = NoResponse
    /\ gen_error = "none"
    /\ warning_shown = FALSE
    /\ prompt_exclusions = <<>>
    /\ exhausted_error = FALSE
    /\ stored_texts = <<>>

\* The locals and the messages of a run are gone when the run ends.
RunEnds ==
    /\ pc' = "idle"
    /\ attempts' = 0
    /\ new_question' = None
    /\ generated_data' = None
    /\ response' = NoResponse
    /\ gen_error' = "none"
    /\ warning_shown' = FALSE
    /\ prompt_exclusions' = <<>>

(***************************************************************************)
(* The prompt's exclusion list (app6.py:71).                               *)
(***************************************************************************)
Min(a, b) == IF a < b THEN a ELSE b

\* list(asked_questions_set)[-10:].  A Python set keeps no insertion order:
\* list() of it gives its elements in hash order, which for strings changes
\* from process to process, so the last 10 of the list are any 10 elements
\* of the set (all of them when the set has at most 10).
ExclusionChoices(asked) ==
    { T \in SUBSET asked :
        Cardinality(T) = Min(Cardinality(asked), ExclusionLimit) }

\* The prompt is built (app6.py:52-72).
PromptBuilt ==
    \E T \in ExclusionChoices(asked_questions_set) :
        prompt_exclusions' = <<T>>

(***************************************************************************)
(* The generator alone.                                                    *)
(***************************************************************************)
\* One call: the model answers r and the function returns.
GenerateCall ==
    /\ response = NoResponse
    /\ \E r \in ModelResponses :
        \E o \in generate_crypto_question_google(r) :
            /\ response' = r
            /\ generated_data' = o.data
            /\ gen_error' = o.error
            /\ warning_shown' = o.warning
    /\ PromptBuilt
    /\ UNCHANGED <<session_vars, pc, attempts, new_question,
                   exhausted_error, stored_texts>>

\* The caller is done with the returned value; the next call starts afresh.
GenerateDone ==
    /\ response # NoResponse
    /\ response' = NoResponse
    /\ generated_data' = None
    /\ gen_error' = "none"
    /\ warning_shown' = FALSE
    /\ prompt_exclusions' = <<>>
    /\ UNCHANGED <<session_vars, pc, attempts, new_question,
                   exhausted_error, stored_texts>>

NextGen == GenerateCall \/ GenerateDone

SpecGen == Init /\ [][NextGen]_vars

(***************************************************************************)
(* The exclusion list alone: the function reads whatever set the session   *)
(* state holds, here every history of up to MaxHistory texts, added in     *)
(* increasing order.                                                       *)
(***************************************************************************)
PromptTexts == 1..MaxHistory

RECURSIVE AscendingSeq(_)
AscendingSeq(S) ==
    IF S = {} THEN <<>>
    ELSE LET m == CHOOSE x \in S : \A y \in S : y <= x
         IN  Append(AscendingSeq(S \ {m}), m)

InitPrompt ==
    /\ current_question = None
    /\ question_requested = TRUE
    /\ user_answer = NoneStr
    /\ submitted = FALSE
    /\ feedback = NoneStr
    /\ correct_count = 0
    /\ total_questions = 0
    /\ max_questions = MaxQuestions
    /\ quiz_finished = FALSE
    /\ asked_questions_set \in SUBSET PromptTexts
    /\ pc = "loop"
    /\ attempts = 0
    /\ new_question = None
    /\ generated_data = None
    /\ response = NoResponse
    /\ gen_error = "none"
    /\ warning_shown = FALSE
    /\ prompt_exclusions = <<>>
    /\ exhausted_error = FALSE
    /\ stored_texts = AscendingSeq(asked_questions_set)

BuildPrompt ==
    /\ prompt_exclusions = <<>>
    /\ PromptBuilt
    /\ UNCHANGED <<session_vars, pc, local_vars, response, gen_error,
                   warning_shown, exhausted_error, stored_texts>>

NextPrompt == BuildPrompt

SpecPrompt == InitPrompt /\ [][NextPrompt]_vars

(***************************************************************************)
(* The render tick of a quiz that is not finished and shows no question    *)
(* (app6.py:160-207).                                                      *)
(***************************************************************************)
\* app6.py:163
NoQuestionAndNotRequested ==
    current_question = None /\ ~question_requested

\* app6.py:164
NeedsQuestion == total_questions < max_questions

\* app6.py:200
FinishOnTickGuard ==
    total_questions = max_questions /\ ~quiz_finished

\* app6.py:170
LoopCondition_OffByOne(att) == att <= max_attempts

LoopCondition(att) == att < max_attempts

\* app6.py:176
IsNewText_AcceptAll(text, asked) == TRUE

IsNewText(text, asked) == text \notin asked

RenderTick ==
    /\ pc = "idle"
    /\ ~quiz_finished
    /\ NoQuestionAndNotRequested
    /\ IF NeedsQuestion
       THEN /\ question_requested' = TRUE
            /\ new_question' = None
            /\ attempts' = 0
            /\ pc' = "loop"
            /\ exhausted_error' = FALSE
            /\ UNCHANGED <<current_question, user_answer, submitted, feedback,
                           correct_count, total_questions, max_questions,
                           quiz_finished, asked_questions_set, generated_data,
                           call_vars, stored_texts>>
       ELSE IF FinishOnTickGuard
       THEN /\ quiz_finished' = TRUE
            /\ current_question' = None
            /\ user_answer' = NoneStr
            /\ submitted' = FALSE
            /\ feedback' = NoneStr
            /\ question_requested' = FALSE
            /\ exhausted_error' = FALSE
            /\ UNCHANGED <<correct_count, total_questions, max_questions,
                           asked_questions_set, pc, local_vars, call_vars,
                           stored_texts>>
       ELSE /\ exhausted_error' = FALSE
            /\ UNCHANGED <<session_vars, pc, local_vars, call_vars,
                           stored_texts>>

\* What generated_data = generate_crypto_question_google() can give the loop.
SessionOutcomes ==
    UNION { generate_crypto_question_google(r) : r \in SessionResponses }

\* One iteration of the while loop (app6.py:170-186).
Attempt ==
    /\ pc = "loop"
    /\ \E o \in SessionOutcomes :
            IF o.data # None /\ o.data.question = UnhashableText
            THEN \* "question_text not in asked_questions_set" raises TypeError
                 \* outside any try: the run dies with question_requested set.
                 /\ RunEnds
                 /\ UNCHANGED <<session_vars, exhausted_error, stored_texts>>
            ELSE /\ attempts' = attempts + 1
                 /\ generated_data' = o.data
                 /\ UNCHANGED response
                 /\ gen_error' = o.error
                 /\ warning_shown' = o.warning
                 /\ PromptBuilt
                 /\ IF o.data # None
                       /\ IsNewText(o.data.question, asked_questions_set)
                    THEN /\ new_question' = o.data
                         /\ asked_questions_set' =
                                asked_questions_set \cup {o.data.question}
                         /\ pc' = "after"
                    ELSE /\ pc' = IF LoopCondition(attempts + 1)
                                  THEN "loop" ELSE "after"
                         /\ UNCHANGED <<new_question, asked_questions_set>>
                 /\ UNCHANGED <<current_question, question_requested,
                                user_answer, submitted, feedback, correct_count,
                                total_questions, max_questions, quiz_finished,
                                exhausted_error, stored_texts>>

\* app6.py:188-197
EndGeneration_KeepRequested ==
    /\ pc = "after"
    /\ IF new_question # None
       THEN /\ current_question' = new_question
            /\ user_answer' = NoneStr
            /\ submitted' = FALSE
            /\ feedback' = NoneStr
            /\ question_requested' = FALSE
            /\ stored_texts' = Append(stored_texts, new_question.question)
            /\ UNCHANGED exhausted_error
       ELSE /\ exhausted_error' = TRUE
            /\ UNCHANGED <<current_question, question_requested, user_answer,
                           submitted, feedback, stored_texts>>
    /\ RunEnds
    /\ UNCHANGED <<correct_count, total_questions, max_questions,
                   quiz_finished, asked_questions_set>>

EndGeneration ==
    /\ pc = "after"
    /\ IF new_question # None
       THEN /\ current_question' = new_question
            /\ user_answer' = NoneStr
            /\ submitted' = FALSE
            /\ feedback' = NoneStr
            /\ question_requested' = FALSE
            /\ stored_texts' = Append(stored_texts, new_question.question)
            /\ UNCHANGED exhausted_error
       ELSE /\ exhausted_error' = TRUE
            /\ question_requested' = FALSE
            /\ UNCHANGED <<current_question, user_answer, submitted, feedback,
                           stored_texts>>
    /\ RunEnds
    /\ UNCHANGED <<correct_count, total_questions, max_questions,
                   quiz_finished, asked_questions_set>>

(***************************************************************************)
(* The question and feedback views (app6.py:211-279).                      *)
(***************************************************************************)
\* app6.py:160, 211, 215
ShowingQuestion_IgnoreSubmitted ==
    pc = "idle" /\ ~quiz_finished /\ current_question # None

ShowingQuestion ==
    pc = "idle" /\ ~quiz_finished /\ current_question # None /\ ~submitted

\* app6.py:160, 211, 243
ShowingFeedback ==
    /\ pc = "idle" /\ ~quiz_finished /\ current_question # None
    /\ submitted /\ feedback # NoneStr

\* app6.py:221-226: the run caused by picking a radio option.
SelectOption ==
    /\ ShowingQuestion
    /\ \E choice \in Range(current_question.options) :
          user_answer' = choice
    /\ UNCHANGED <<current_question, question_requested, submitted, feedback,
                   correct_count, total_questions, max_questions,
                   quiz_finished, asked_questions_set, pc, local_vars,
                   call_vars, exhausted_error, stored_texts>>

\* app6.py:230: the button is disabled while nothing is selected.
SubmitEnabled == ShowingQuestion /\ user_answer # NoneStr

\* app6.py:231-240
SubmitAnswer_NoTotal ==
    /\ SubmitEnabled
    /\ submitted' = TRUE
    /\ IF user_answer = current_question.answer
       THEN feedback' = FeedbackCorrect /\ correct_count' = correct_count + 1
       ELSE feedback' = FeedbackIncorrect /\ UNCHANGED correct_count
    /\ IF user_answer = current_question.answer
       THEN UNCHANGED total_questions
       ELSE total_questions' = total_questions + 1
    /\ UNCHANGED <<current_question, question_requested, user_answer,
                   max_questions, quiz_finished, asked_questions_set, pc,
                   local_vars, call_vars, exhausted_error, stored_texts>>

SubmitAnswer_AlwaysCorrect ==
    /\ SubmitEnabled
    /\ submitted' = TRUE
    /\ IF user_answer = current_question.answer
       THEN feedback' = FeedbackCorrect
       ELSE feedback' = FeedbackIncorrect
    /\ correct_count' = correct_count + 1
    /\ total_questions' = total_questions + 1
    /\ UNCHANGED <<current_question, question_requested, user_answer,
                   max_questions, quiz_finished, asked_questions_set, pc,
                   local_vars, call_vars, exhausted_error, stored_texts>>

SubmitAnswer ==
    /\ SubmitEnabled
    /\ submitted' = TRUE
    /\ IF user_answer = current_question.answer
       THEN feedback' = FeedbackCorrect /\ correct_count' = correct_count + 1
       ELSE feedback' = FeedbackIncorrect /\ UNCHANGED correct_count
    /\ total_questions' = total_questions + 1
    /\ UNCHANGED <<current_question, question_requested, user_answer,
                   max_questions, quiz_finished, asked_questions_set, pc,
                   local_vars, call_vars, exhausted_error, stored_texts>>

\* app6.py:261
HasMoreQuestions_Inclusive == total_questions <= max_questions

HasMoreQuestions_OffByOne == total_questions < max_questions - 1

HasMoreQuestions == total_questions < max_questions

\* app6.py:263-269
NextQuestion ==
    /\ ShowingFeedback
    /\ HasMoreQuestions
    /\ current_question' = None
    /\ user_answer' = NoneStr
    /\ submitted' = FALSE
    /\ feedback' = NoneStr
    /\ question_requested' = FALSE
    /\ UNCHANGED <<correct_count, total_questions, max_questions,
                   quiz_finished, asked_questions_set, pc, local_vars,
                   call_vars, exhausted_error, stored_texts>>

\* app6.py:272-279
ViewResults_KeepQuestion ==
    /\ ShowingFeedback
    /\ ~HasMoreQuestions
    /\ quiz_finished' = TRUE
    /\ user_answer' = NoneStr
    /\ submitted' = FALSE
    /\ feedback' = NoneStr
    /\ UNCHANGED <<current_question, question_requested, correct_count,
                   total_questions, max_questions, asked_questions_set, pc,
                   local_vars, call_vars, exhausted_error, stored_texts>>

ViewResults ==
    /\ ShowingFeedback
    /\ ~HasMoreQuestions
    /\ quiz_finished' = TRUE
    /\ current_question' = None
    /\ user_answer' = NoneStr
    /\ submitted' = FALSE
    /\ feedback' = NoneStr
    /\ UNCHANGED <<question_requested, correct_count, total_questions,
                   max_questions, asked_questions_set, pc, local_vars,
                   call_vars, exhausted_error, stored_texts>>

(***************************************************************************)
(* The finished view (app6.py:287-322).                                    *)
(***************************************************************************)
\* f"{x:.1f}" of x = k / n * 100 (app6.py:293, 302), as a number of tenths:
\* the nearest tenth, a tie going to the even one.
FormatTenths_Truncate(k, n) == (1000 * k) \div n

FormatTenths(k, n) ==
    LET q == (1000 * k) \div n
        r == (1000 * k) % n
    IN  IF 2 * r > n THEN q + 1
        ELSE IF 2 * r < n THEN q
        ELSE IF q % 2 = 0 THEN q ELSE q + 1

\* app6.py:291-293: the percentage on the summary screen, in tenths.
FinalAccuracy ==
    LET final_score == correct_count
        total_possible == max_questions
    IN  IF total_possible > 0 THEN FormatTenths(final_score, total_possible)
        ELSE 0

\* app6.py:310-322
Restart_KeepHistory ==
    /\ pc = "idle"
    /\ quiz_finished
    /\ current_question' = None
    /\ question_requested' = FALSE
    /\ user_answer' = NoneStr
    /\ submitted' = FALSE
    /\ feedback' = NoneStr
    /\ correct_count' = 0
    /\ total_questions' = 0
    /\ quiz_finished' = FALSE
    /\ stored_texts' = <<>>
    /\ UNCHANGED <<asked_questions_set, max_questions, pc, local_vars,
                   call_vars, exhausted_error>>

Restart ==
    /\ pc = "idle"
    /\ quiz_finished
    /\ current_question' = None
    /\ question_requested' = FALSE
    /\ user_answer' = NoneStr
    /\ submitted' = FALSE
    /\ feedback' = NoneStr
    /\ correct_count' = 0
    /\ total_questions' = 0
    /\ quiz_finished' = FALSE
    /\ asked_questions_set' = {}
    /\ stored_texts' = <<>>
    /\ UNCHANGED <<max_questions, pc, local_vars, call_vars, exhausted_error>>

Next ==
    \/ RenderTick
    \/ Attempt
    \/ EndGeneration
    \/ SelectOption
    \/ SubmitAnswer
    \/ NextQuestion
    \/ ViewResults
    \/ Restart

Spec == Init /\ [][Next]_vars

(***************************************************************************)
(* Fairness.  A script run happens on the first load and after each        *)
(* st.rerun() (app6.py:194, 240, 269, 279, 322); a run that ends without   *)
(* st.rerun() (after st.error, app6.py:197) is followed by another only    *)
(* when a widget is used, and that page shows none.                        *)
(***************************************************************************)
\* The run that the first load or an st.rerun() starts.
ScriptRerun == RenderTick /\ ~exhausted_error

\* An iteration whose call returned a question of a new text whose answer
\* is one of its options (app6.py:176-181).
GoodAttempt ==
    /\ Attempt
    /\ new_question' # None
    /\ new_question'.answer \in Range(new_question'.options)

\* The user at the question view and the feedback view (app6.py:221-279).
UserKeepsActing ==
    /\ WF_vars(SelectOption)
    /\ WF_vars(SubmitAnswer)
    /\ WF_vars(NextQuestion)
    /\ WF_vars(ViewResults)

Fairness ==
    /\ WF_vars(ScriptRerun)
    /\ WF_vars(Attempt)
    /\ SF_vars(GoodAttempt)
    /\ WF_vars(EndGeneration)
    /\ UserKeepsActing

SpecLive == Init /\ [][Next]_vars /\ Fairness

(***************************************************************************)
(* Properties.                                                             *)
(***************************************************************************)
\* The multiset of the elements of a sequence.
SeqToBag(s) == [x \in Range(s) |-> Cardinality({i \in 1..Len(s) : s[i] = x})]

NoDuplicates(s) == \A i, j \in 1..Len(s) : i # j => s[i] # s[j]

\* Every arrangement of the elements of s, defined without the shuffle.
Arrangements(s) ==
    { [i \in 1..Len(s) |-> s[p[i]]] : p \in Permutations(1..Len(s)) }

\* The option orders generate_crypto_question_google can return for r.
ReturnedOrders(r) ==
    { o.data.options : o \in generate_crypto_question_google(r) }

\* C1: in every reachable state 0 <= correct_count <= total_questions.
C1_ScoreInvariant ==
    0 <= correct_count /\ correct_count <= total_questions

\* Some answers were scored correct and some incorrect.
C1_Witness ==
    0 < correct_count /\ correct_count < total_questions

\* C2: total_questions never exceeds max_questions, and once it equals
\* max_questions no question is being generated or waits for an answer, so
\* SubmitAnswer is not enabled.
C2_AnsweredBounded ==
    /\ total_questions <= max_questions
    /\ total_questions = max_questions =>
          /\ pc = "idle"
          /\ current_question # None => submitted
          /\ ~ENABLED SubmitAnswer

\* The last question has been answered and its feedback is on the page.
C2_Witness ==
    total_questions = max_questions /\ current_question # None /\ submitted

\* C3: quiz_finished holds only where total_questions = max_questions, and a
\* step that takes it from true to false is a Restart step.
C3_FinishedStable ==
    /\ [](quiz_finished => total_questions = max_questions)
    /\ [][(quiz_finished /\ ~quiz_finished') => Restart]_vars

\* The quiz is finished after max_questions answers.
C3_Witness ==
    quiz_finished /\ total_questions = max_questions /\ max_questions > 0

\* C4: a stored question and quiz_finished exclude each other: while the
\* quiz is finished current_question is None and no generation is running.
C4_NoQuestionWhenFinished ==
    /\ current_question # None => ~quiz_finished
    /\ quiz_finished => current_question = None /\ pc = "idle" /\ new_question = None

\* ViewResults has finished a quiz in which max_questions questions were
\* stored.
C4_Witness ==
    quiz_finished /\ current_question = None /\ Len(stored_texts) = max_questions

\* C5: the texts stored as current_question since the last restart are
\* pairwise distinct and all in asked_questions_set; a generated question
\* the loop goes on after was a duplicate or a failure, and the question the
\* loop leaves with is the one just generated and was never stored before.
C5_Dedup ==
    /\ NoDuplicates(stored_texts)
    /\ Range(stored_texts) \subseteq asked_questions_set
    /\ (pc = "loop" /\ generated_data # None) =>
          generated_data.question \in Range(stored_texts)
    /\ (pc = "after" /\ new_question # None) =>
          /\ new_question = generated_data
          /\ new_question.question \notin Range(stored_texts)
          /\ new_question.question \in asked_questions_set
    /\ current_question # None =>
          /\ stored_texts # <<>>
          /\ current_question.question = stored_texts[Len(stored_texts)]

\* After at least one discarded attempt the loop accepted a question, in a
\* session that had stored a question before.
C5_Witness ==
    /\ pc = "after" /\ attempts > 1 /\ new_question # None
    /\ stored_texts # <<>>

\* The loop discarded a duplicate.
C5_DuplicateSeen ==
    pc = "loop" /\ generated_data # None

\* C6 (as claimed): every returned mc question has its answer among its
\* options, exactly 5 options, and pairwise distinct options.
C6_McWellFormed ==
    (generated_data # None /\ generated_data.type = "mc") =>
        /\ generated_data.answer \in Range(generated_data.options)
        /\ Len(generated_data.options) = PromptOptionCount
        /\ NoDuplicates(generated_data.options)

\* C7 (as claimed): every stored question has its answer among its options.
C7_AnswerInOptions ==
    current_question # None =>
        current_question.answer \in Range(current_question.options)

\* C8 (as claimed): every returned tf question has answer "True" or "False".
C8_TfTrueFalse ==
    (generated_data # None /\ generated_data.type = "tf") =>
        generated_data.answer \in {"True", "False"}

\* C8 (amended): every returned tf question has answer "Verdadero" or
\* "Falso", and a tf response with any other answer is rejected by the
\* validation.
C8_TfVerdaderoFalso ==
    /\ (generated_data # None /\ generated_data.type = "tf") =>
          generated_data.answer \in {"Verdadero", "Falso"}
    /\ (/\ response # NoResponse
        /\ response.kind = "json"
        /\ response.type = "tf"
        /\ response.answer \notin {"Verdadero", "Falso"}) =>
          generated_data = None /\ gen_error = "validation"

\* A tf response was rejected for its answer "True".
C8_Witness ==
    /\ response # NoResponse
    /\ response.kind = "json" /\ response.keys_ok /\ response.options_is_list
    /\ response.type = "tf" /\ response.answer = "True"
    /\ generated_data = None /\ gen_error = "validation"

\* A tf question with answer "Falso" was returned.
C8_Accepted ==
    /\ generated_data # None
    /\ generated_data.type = "tf" /\ generated_data.answer = "Falso"

\* C9: the options of a returned mc question are an arrangement of the
\* response's options (same length, same multiplicities) that still holds
\* the answer, every arrangement is a possible return value, and a question
\* of another type is returned with its options as they came.
C9_ShuffleIsPermutation ==
    (response # NoResponse /\ generated_data # None) =>
        IF generated_data.type = "mc"
        THEN /\ Len(generated_data.options) = Len(response.options)
             /\ SeqToBag(generated_data.options) = SeqToBag(response.options)
             /\ generated_data.answer \in Range(generated_data.options)
             /\ ReturnedOrders(response) = Arrangements(response.options)
        ELSE generated_data.options = response.options

\* A 5-option mc question came back in another order than the response's.
C9_Witness ==
    /\ response # NoResponse /\ generated_data # None
    /\ generated_data.type = "mc"
    /\ Len(generated_data.options) = PromptOptionCount
    /\ generated_data.options # response.options

\* C10: a generation tick calls the generator at most max_attempts times;
\* the loop goes on only while nothing was accepted and the bound is not
\* reached, leaves with the question just generated, and leaves without a
\* question only after max_attempts calls, in which case current_question
\* stays None.
C10_BoundedRetries ==
    /\ attempts <= max_attempts
    /\ pc = "loop" => new_question = None /\ attempts < max_attempts
    /\ (pc = "after" /\ new_question # None) => new_question = generated_data
    /\ (pc = "after" /\ new_question = None) =>
          attempts = max_attempts /\ current_question = None
    /\ exhausted_error => current_question = None /\ new_question = None

\* The loop ran out of attempts and the error is on the page.
C10_Witness ==
    exhausted_error /\ pc = "idle" /\ current_question = None


\* The part of the session state a failed generation tick must not touch.
kept_on_failure ==
    <<current_question, submitted, correct_count, total_questions,
      quiz_finished, asked_questions_set>>

\* C11: a generation tick that ends without a question changes none of
\* current_question, submitted, correct_count, total_questions,
\* quiz_finished and asked_questions_set in any of its steps; its last step
\* clears question_requested and puts the error on the page; and while the
\* error is on the page the session is awaiting a question with the
\* generation guard true, so that the next render tick starts generation.
C11_ExhaustionLeavesSessionRetryable ==
    /\ [][((pc # "idle" \/ pc' # "idle") /\ new_question = None
                                         /\ new_question' = None)
             => UNCHANGED kept_on_failure]_vars
    /\ [][(pc = "after" /\ new_question = None)
             => (~question_requested' /\ exhausted_error' /\ pc' = "idle")]_vars
    /\ [](exhausted_error =>
             /\ pc = "idle" /\ ~quiz_finished
             /\ current_question = None /\ ~question_requested
             /\ NoQuestionAndNotRequested /\ NeedsQuestion
             /\ ENABLED RenderTick)

\* The tick ran out of attempts in a session that has answered questions.
C11_Witness ==
    /\ exhausted_error /\ ~question_requested /\ current_question = None
    /\ total_questions > 0 /\ asked_questions_set # {}


\* C12: Restart is enabled exactly in the finished states; the step that
\* leaves a finished state zeroes correct_count and total_questions, clears
\* quiz_finished, current_question, submitted, question_requested and
\* asked_questions_set, and keeps max_questions; every text that was in the
\* history, and so was refused as a duplicate, passes the duplicate test
\* against the history after the step.
C12_RestartResets ==
    /\ [](ENABLED Restart <=> quiz_finished)
    /\ [][(quiz_finished /\ ~quiz_finished') =>
             /\ correct_count' = 0
             /\ total_questions' = 0
             /\ current_question' = None
             /\ ~submitted'
             /\ ~question_requested'
             /\ asked_questions_set' = {}
             /\ max_questions' = max_questions
             /\ user_answer' = NoneStr /\ feedback' = NoneStr
             /\ \A t \in asked_questions_set :
                    /\ ~IsNewText(t, asked_questions_set)
                    /\ IsNewText(t, asked_questions_set')]_vars

\* A finished quiz with a score and a history, where Restart is enabled.
C12_Witness ==
    /\ quiz_finished /\ ENABLED Restart
    /\ correct_count > 0 /\ correct_count < total_questions
    /\ Cardinality(asked_questions_set) = max_questions


\* C13: every submit adds 1 to total_questions and adds 1 to correct_count
\* exactly when the chosen option equals the question's answer; finishing
\* changes neither; and in a finished quiz total_questions = max_questions
\* = N, correct_count = k <= N, and the percentage shown is 100 * k / N to
\* the nearest tenth (100.0 for k = N, 50.0 for 2k = N).
C13_FinalScore ==
    /\ [][(~submitted /\ submitted') =>
             /\ total_questions' = total_questions + 1
             /\ correct_count' = correct_count +
                    (IF user_answer = current_question.answer THEN 1 ELSE 0)]_vars
    /\ [][(~quiz_finished /\ quiz_finished') =>
             UNCHANGED <<correct_count, total_questions>>]_vars
    /\ [](quiz_finished =>
             /\ total_questions = max_questions
             /\ correct_count <= max_questions
             /\ 2 * (FinalAccuracy * max_questions - 1000 * correct_count)
                    <= max_questions
             /\ 2 * (1000 * correct_count - FinalAccuracy * max_questions)
                    <= max_questions
             /\ correct_count = max_questions => FinalAccuracy = 1000
             /\ 2 * correct_count = max_questions => FinalAccuracy = 500)

\* A finished quiz with some answers right and some wrong.
C13_Witness ==
    /\ quiz_finished /\ total_questions = max_questions
    /\ FinalAccuracy > 0 /\ FinalAccuracy < 1000

\* A finished quiz with every answer right shows 100.0.
C13_AllCorrect ==
    quiz_finished /\ correct_count = max_questions /\ FinalAccuracy = 1000


\* The four states of the session, read off the session fields.
SessionState ==
    IF quiz_finished THEN "Finished"
    ELSE IF current_question = None THEN "AwaitingQuestion"
    ELSE IF submitted THEN "ShowingFeedback"
    ELSE "ShowingQuestion"

\* C14: the session state changes only along AwaitingQuestion ->
\* ShowingQuestion (the generation loop left with a question),
\* ShowingQuestion -> ShowingFeedback (an option was submitted),
\* ShowingFeedback -> AwaitingQuestion (only with total_questions <
\* max_questions), ShowingFeedback -> Finished and AwaitingQuestion ->
\* Finished (only with total_questions = max_questions) and Finished ->
\* AwaitingQuestion; in ShowingFeedback exactly one of NextQuestion and
\* ViewResults is enabled; in Finished only Restart is enabled.
C14_Transitions ==
    /\ [][SessionState' # SessionState =>
           \/ /\ SessionState = "AwaitingQuestion"
              /\ SessionState' = "ShowingQuestion"
              /\ pc = "after" /\ current_question' = new_question
           \/ /\ SessionState = "ShowingQuestion"
              /\ SessionState' = "ShowingFeedback"
              /\ user_answer # NoneStr
           \/ /\ SessionState = "ShowingFeedback"
              /\ SessionState' = "AwaitingQuestion"
              /\ total_questions < max_questions
           \/ /\ SessionState = "ShowingFeedback"
              /\ SessionState' = "Finished"
              /\ total_questions = max_questions
           \/ /\ SessionState = "AwaitingQuestion"
              /\ SessionState' = "Finished"
              /\ total_questions = max_questions
           \/ /\ SessionState = "Finished"
              /\ SessionState' = "AwaitingQuestion"]_vars
    /\ [](SessionState = "ShowingFeedback" =>
            /\ (ENABLED NextQuestion) # (ENABLED ViewResults)
            /\ (ENABLED NextQuestion) <=> total_questions < max_questions)
    /\ [](SessionState = "Finished" =>
            /\ ENABLED Restart
            /\ ~ENABLED RenderTick /\ ~ENABLED Attempt
            /\ ~ENABLED EndGeneration /\ ~ENABLED SelectOption
            /\ ~ENABLED SubmitAnswer /\ ~ENABLED NextQuestion
            /\ ~ENABLED ViewResults)

\* Feedback for the last question: ViewResults is offered, NextQuestion not.
C14_Witness ==
    /\ SessionState = "ShowingFeedback"
    /\ ENABLED ViewResults /\ ~ENABLED NextQuestion

\* Feedback for an earlier question: NextQuestion is offered.
C14_NextOffered ==
    /\ SessionState = "ShowingFeedback"
    /\ ENABLED NextQuestion /\ ~ENABLED ViewResults


\* C15: SubmitAnswer is enabled only while a question is shown with an
\* option chosen; the submit step adds exactly 1 to total_questions, adds 1
\* to correct_count exactly when the chosen option equals the answer, sets
\* submitted and a feedback message, and leaves current_question,
\* asked_questions_set and quiz_finished as they were; the counters change
\* in no other step but Restart; and once submitted SubmitAnswer is
\* disabled, so the answers counted are the questions stored, less the one
\* still waiting for its answer.
C15_SubmitEffect ==
    /\ [](ENABLED SubmitAnswer =>
            /\ SessionState = "ShowingQuestion"
            /\ pc = "idle"
            /\ user_answer # NoneStr
            /\ user_answer \in Range(current_question.options))
    /\ [][(~submitted /\ submitted') =>
            /\ ENABLED SubmitAnswer
            /\ total_questions' = total_questions + 1
            /\ IF user_answer = current_question.answer
               THEN correct_count' = correct_count + 1
                    /\ feedback' = FeedbackCorrect
               ELSE correct_count' = correct_count
                    /\ feedback' = FeedbackIncorrect
            /\ feedback' # NoneStr
            /\ UNCHANGED <<current_question, asked_questions_set,
                           quiz_finished, max_questions, user_answer>>]_vars
    /\ [][(total_questions' # total_questions
            \/ correct_count' # correct_count) =>
            \/ ~submitted /\ submitted'
            \/ quiz_finished /\ total_questions' = 0 /\ correct_count' = 0]_vars
    /\ [](submitted => ~ENABLED SubmitAnswer)
    /\ [](total_questions = Len(stored_texts)
              - (IF SessionState = "ShowingQuestion" THEN 1 ELSE 0))

\* A wrong answer has been submitted: counted, not scored.
C15_Witness ==
    /\ submitted /\ feedback = FeedbackIncorrect
    /\ total_questions > correct_count
    /\ user_answer # current_question.answer

\* A right answer has been submitted.
C15_Scored ==
    /\ submitted /\ feedback = FeedbackCorrect
    /\ user_answer = current_question.answer


\* The last n elements of a sequence (all of them when it is shorter).
LastN(s, n) ==
    { s[i] : i \in (IF Len(s) > n THEN Len(s) - n + 1 ELSE 1)..Len(s) }

C16_WholeShortHistory ==
    prompt_exclusions # <<>> =>
        /\ prompt_exclusions[1] \subseteq asked_questions_set
        /\ Cardinality(asked_questions_set) <= ExclusionLimit =>
              prompt_exclusions[1] = asked_questions_set
        /\ Cardinality(asked_questions_set) > ExclusionLimit =>
              Cardinality(prompt_exclusions[1]) = ExclusionLimit


\* C17 (as claimed): question_requested is set during the whole generation
\* loop, a tick cannot start generation while it is set, and it is clear
\* whenever no run is in progress and the session waits for the user.
C17_SingleFlight ==
    /\ pc # "idle" => question_requested
    /\ question_requested => ~ENABLED RenderTick
    /\ pc = "idle" => ~question_requested

\* C18 (as claimed): a response that passes the other validation steps is
\* returned as a question whatever its explanation is; a short or invalid
\* explanation only shows the warning.
C18_ExplanationAdvisory ==
    (/\ response # NoResponse
     /\ response.kind = "json"
     /\ ~RaisesValueError(response)) =>
        /\ generated_data # None
        /\ gen_error = "none"
        /\ warning_shown <=> ExplanationWarns(response.explanation)


\* The tick takes the branch of app6.py:200-207.
FinishOnTickEnabled ==
    /\ pc = "idle" /\ ~quiz_finished
    /\ NoQuestionAndNotRequested
    /\ ~NeedsQuestion
    /\ FinishOnTickGuard

\* C19: no reachable state lets a render tick take the finish branch: with
\* total_questions = max_questions and the quiz not finished, the last
\* question is still stored, submitted; and every step that sets
\* quiz_finished starts in the feedback view with no question left to ask,
\* i.e. is a ViewResults step.
C19_FinishOnlyByViewResults ==
    /\ [](~FinishOnTickEnabled)
    /\ []((total_questions = max_questions /\ ~quiz_finished) =>
             current_question # None /\ submitted /\ pc = "idle")
    /\ [][(~quiz_finished /\ quiz_finished') =>
             /\ ShowingFeedback
             /\ ~HasMoreQuestions
             /\ ENABLED ViewResults
             /\ current_question # None /\ current_question' = None]_vars

\* After the last answer: ViewResults is enabled and the tick is not.
C19_Witness ==
    /\ total_questions = max_questions
    /\ ENABLED ViewResults /\ ~ENABLED RenderTick /\ ~FinishOnTickEnabled


\* The question the loop has accepted and the tick has not stored yet.
AcceptedNotStored ==
    IF pc = "after" /\ new_question # None
    THEN {new_question.question} ELSE {}

\* C20: the text of a stored question is in asked_questions_set; the set
\* holds exactly the texts of the questions accepted since the last
\* restart; between runs its size is total_questions while awaiting a
\* question, showing feedback or finished, and total_questions + 1 while a
\* question waits for its answer (inside a generation tick: total_questions
\* until the loop accepts a question, total_questions + 1 from then on); it
\* never exceeds max_questions.
C20_HistoryMatchesProgress ==
    /\ current_question # None =>
          current_question.question \in asked_questions_set
    /\ asked_questions_set = Range(stored_texts) \cup AcceptedNotStored
    /\ pc = "idle" =>
          Cardinality(asked_questions_set) =
             total_questions
               + (IF SessionState = "ShowingQuestion" THEN 1 ELSE 0)
    /\ pc # "idle" =>
          /\ SessionState = "AwaitingQuestion"
          /\ Cardinality(asked_questions_set) =
                total_questions + Cardinality(AcceptedNotStored)
    /\ Cardinality(asked_questions_set) <= max_questions

\* A later question waits for its answer: the history is one ahead.
C20_Witness ==
    /\ SessionState = "ShowingQuestion" /\ pc = "idle"
    /\ total_questions > 0
    /\ Cardinality(asked_questions_set) = total_questions + 1


\* app6.py:286: the finished view, reached with every question answered.
Finished == quiz_finished /\ total_questions = max_questions

\* The run died in the loop (app6.py:176): nothing is shown and the flag
\* of app6.py:165 keeps every later run out of the generation block.
CrashedInLoop ==
    /\ pc = "idle" /\ ~quiz_finished
    /\ current_question = None /\ question_requested

\* The stored question offers no option: st.radio (app6.py:221) returns
\* None and the Enviar button (app6.py:230) stays disabled.
NothingToSelect ==
    /\ ShowingQuestion
    /\ current_question.options = <<>>

\* C21: every generation tick ends after at most max_attempts calls; under
\* the fairness of SpecLive every session eventually shows the finished
\* view with total_questions = max_questions; and every reachable state
\* short of Finished has an enabled action.
C21_Liveness ==
    /\ [](attempts <= max_attempts)
    /\ (pc # "idle") ~> (pc = "idle")
    /\ <>Finished
    /\ [](Finished \/ ENABLED Next)

\* What does hold under SpecLive: a session reaches the finished view
\* unless it first reaches one of three states it cannot leave by itself:
\* the crash in the loop, a question without options, or the error message
\* of app6.py:197 after max_attempts failed attempts.
C21_FinishesOrStops ==
    <>(Finished \/ CrashedInLoop \/ NothingToSelect \/ exhausted_error)

\* Each of the three states is reached, and the first two enable nothing.
C21_StuckReached ==
    /\ ~Finished
    /\ ~ENABLED Next
    /\ CrashedInLoop \/ NothingToSelect

====
